---------------------------- MODULE Spec2Model ----------------------------
(***************************************************************************)
(* A model of src/services/cua_agent.py: the TAP test-execution harness.   *)
(*                                                                         *)
(* One process of the script is main() -> execute_scenario(): it validates *)
(* its inputs, creates and starts the Docker "computer", starts tracing,   *)
(* runs the agent loop as an asyncio task raced against a deadline with    *)
(* asyncio.wait_for, and cleans up in a finally block.  The three GitHub   *)
(* tool adapters are modelled as operations of their own.                  *)
(*                                                                         *)
(* Python values: None is the string "None"; a str is a sequence of        *)
(* one-character strings; a dict is a record and dict.get is Get.          *)
(* Exceptions are named by their class; every failure of a collaborator    *)
(* (sandbox provider, agent, filesystem) is an instance of Exception.      *)
(***************************************************************************)
EXTENDS Integers, Sequences, FiniteSets, TLC

\* ------------------------------------------------------------------ bounds

\* The largest CUA_TIMEOUT_SECONDS a run is given.
MaxTimeout == 2

\* The most result fragments the agent yields in one run.
MaxFrags == 2

\* The most files tracing leaves in the trace directory.
MaxFiles == 2

\* ------------------------------------------------------- program constants

\* asyncio.wait_for(agent_task, timeout=5.0): the cancellation grace period.
GRACE == 5

\* The event-loop clock is followed until one second past the last instant
\* at which the run could still be inside the grace period.
MaxTime == MaxTimeout + GRACE + 1

\* container_name = "tap-test-container"
container_name == "tap-test-container"

ProcIds == {1, 2}

\* None where the other values are strings (a path, a message).
None == "None"

\* An Optional[str]: None is the empty tuple, the string s is <<s>>.
NoneStr == <<>>
Some(s) == <<s>>

\* ------------------------------------------------------------ Python values

\* dict.get(key, default)
Get(d, k, default) == IF k \in DOMAIN d THEN d[k] ELSE default

\* Python truthiness of an Optional[str]: None and "" are falsy.
Truthy(v) == v # NoneStr /\ v[1] # <<>>

Whitespace == {" ", "\n", "\t"}

RECURSIVE LStrip(_)
LStrip(s) ==
    IF s = <<>> THEN <<>>
    ELSE IF Head(s) \in Whitespace THEN LStrip(Tail(s)) ELSE s

RECURSIVE RStrip(_)
RStrip(s) ==
    IF s = <<>> THEN <<>>
    ELSE IF s[Len(s)] \in Whitespace THEN RStrip(SubSeq(s, 1, Len(s) - 1)) ELSE s

\* A mutant of Strip: the input is used as read.
Strip_identity(s) == s

\* str.strip()
Strip(s) == RStrip(LStrip(s))

\* sep.join(parts)
RECURSIVE Join(_, _)
Join(sep, parts) ==
    IF parts = <<>> THEN <<>>
    ELSE IF Len(parts) = 1 THEN parts[1]
    ELSE parts[1] \o sep \o Join(sep, Tail(parts))

\* The exception classes the script distinguishes.  asyncio.TimeoutError is
\* a subclass of Exception.
IsInstance(e, cls) ==
    CASE cls = "Exception"    -> e \in {"Exception", "TimeoutError"}
      [] cls = "TimeoutError" -> e = "TimeoutError"
      [] OTHER                -> FALSE

\* What a call to a collaborator does: return, or raise one of these.
Raised == {"Exception", "TimeoutError"}

\* ---------------------------------------------------------------- inputs

\* os.getenv("ANTHROPIC_API_KEY"): unset, empty, or a key.
ApiKeyChoices == {NoneStr, Some(<<>>), Some(<<"k">>)}

\* The text on standard input.
StdinChoices == {<<>>, <<" ">>, <<"\n", "\t">>, <<" ", "x", "\n">>}

\* Result fragments of agent.run(): dicts with an optional "output" list of
\* items; an item has a "type" and an optional "content" list of blocks; a
\* block has a "type" and an optional "text".
TextBlock(t) == [type |-> "text", text |-> t]
ImageBlock == [type |-> "image"]
Message(content) == [type |-> "message", content |-> content]

FragmentChoices ==
    { [usage |-> 1],
      [output |-> << Message(<< TextBlock(<<"a">>) >>) >>],
      [output |-> << [type |-> "computer_call"],
                     Message(<< TextBlock(<<"a">>), ImageBlock, TextBlock(<<"b">>) >>) >>],
      [output |-> << [type |-> "reasoning", content |-> << TextBlock(<<"r">>) >>] >>],
      [output |-> << Message(<< [type |-> "text"] >>) >>] }

\* Files tracing may leave in the root of the trace directory.
File(stem, ext) == [stem |-> stem, ext |-> ext]
FileChoices ==
    { File("shot", "png"), File("rec", "mp4"), File("rec", "webm"),
      File("meta", "json"), File("notes", "txt") }


\* The environment the GitHub tools read.  token is os.getenv("GITHUB_TOKEN"):
\* unset, empty, or a token; the others are os.getenv(name, "").
GithubEnv(token, owner, repo, pr) ==
    [token |-> token, repo_owner |-> owner, repo_name |-> repo, pr_number |-> pr]

GithubEnvChoices ==
    { GithubEnv(t, o, n, p) : t \in {NoneStr, Some(<<>>), Some(<<"t">>)},
                              o \in {<<>>, <<"o">>},
                              n \in {<<>>, <<"n">>},
                              p \in {<<>>, <<"7">>} }

NoGithubEnv == GithubEnv(NoneStr, <<>>, <<>>, <<>>)

\* What requests.get(...) does: it raises, or it returns a response with a
\* status code.  json is what response.json() does: it returns the
\* documented object ("ok"), an object that lacks only what the adapter
\* reads with a default, data.get(name, []) ("lacks_optional"), an object
\* that lacks what the adapter reads by subscript ("lacks_required"), or it
\* raises (requests' JSONDecodeError, or the ValueError of the versions of
\* requests before 2.27).  The adapters decode the body of a 200 response
\* only; of any other response they read the text.
Response(raises, status, json) == [raises |-> raises, status |-> status, json |-> json]

StatusChoices == {200, 401, 403, 404, 410, 500}

JsonErrors == {"JSONDecodeError", "ValueError"}

JsonChoices == {"ok", "lacks_optional", "lacks_required"} \cup JsonErrors

ResponseChoices ==
    { Response(e, 0, "ok") : e \in {"Timeout", "ConnectionError"} }
    \cup { Response("none", 200, j) : j \in JsonChoices }
    \cup { Response("none", st, "ok") : st \in StatusChoices \ {200} }

\* The text of a tool argument.
GithubHost == <<"g", "i", "t", "h", "u", "b", ".", "c", "o", "m">>
RunsPath == <<"/", "a", "c", "t", "i", "o", "n", "s", "/", "r", "u", "n", "s", "/">>
Digits == {"0", "1", "2", "3", "4", "5", "6", "7", "8", "9"}

HttpsScheme == <<"h", "t", "t", "p", "s", ":", "/", "/">>

\* workflow_run_id: a bare identifier, run URLs, and URLs of another shape,
\* on github.com and on another host.
WorkflowRunIdChoices ==
    { <<"4", "2">>,
      HttpsScheme \o GithubHost \o <<"/", "o", "/", "n">> \o RunsPath \o <<"4", "2">>,
      HttpsScheme \o <<"g", "h", ".", "i", "o", "/", "o", "/", "n">> \o RunsPath \o <<"4", "2">>,
      HttpsScheme \o <<"g", "h", ".", "i", "o", "/", "o">>,
      <<"x">>,
      GithubHost \o <<"/", "o", "/", "n">> \o RunsPath \o <<"4", "2">>,
      GithubHost \o <<"/", "o", "/", "n">> \o RunsPath \o <<"4", "2", "/", "j">>,
      GithubHost \o RunsPath \o <<"x">> \o RunsPath \o <<"7">>,
      GithubHost \o RunsPath \o <<"1">> \o RunsPath \o <<"4", "2">>,
      GithubHost \o <<"/", "o", "/", "n", "/", "p", "u", "l", "l", "/", "1">>,
      GithubHost \o RunsPath }

\* artifact_id and destination_filename (None by default).
ArtifactIdChoices == { <<"9">>, <<>> }
FilenameChoices == { NoneStr, Some(<<>>), Some(<<"f">>) }


\* ------------------------------------------------------------------ state

VARIABLES
    \* inputs of a process
    env_api_key,        \* os.getenv("ANTHROPIC_API_KEY")
    stdin,              \* the text on standard input
    timeout_seconds,    \* int(os.getenv("CUA_TIMEOUT_SECONDS", "60"))
    budget,             \* how much of its environment's behaviour a run explores
    \* main() and execute_scenario()
    pc,                 \* where the process's main coroutine stands
    shutdown_requested, \* the global flag the signal handler sets
    instructions,       \* sys.stdin.read().strip()
    computer,           \* the local `computer`: None or the Computer object
    calls,              \* the sandbox calls the process has made, in order
    timed_out,          \* the local `timed_out`
    decided,            \* the value of the return statement that was executed
    result,             \* what execute_scenario returned to main
    exit_code,          \* the argument of sys.exit, -1 while running
    \* the agent task and asyncio.wait_for
    clock,              \* asyncio.get_event_loop().time()
    start_time,         \* the local `start_time`
    agent_task,         \* none, pending, or how the task ended
    cancel_pending,     \* task.cancel() was called and not yet delivered
    wait_for,           \* the pending asyncio.wait_for call
    iteration_count,    \* the local `iteration_count`
    output_messages,    \* the local `output_messages`
    stdout,             \* what print(text) wrote to standard output
    \* cleanup
    trace_path,         \* the local `trace_path`
    trace_dir,          \* the trace directory on disk
    move_failed,        \* the files whose shutil.move raised
    \* the Docker host the processes share
    host,
    sandbox,            \* the container each process's Computer is attached to
    \* history, read by the properties only
    observed,           \* the text segments of the fragments the agent yielded
    agent_end,          \* how and when the agent loop ended
    cleanup_faults,     \* the cleanup steps that raised
    deadline_reached,   \* the deadline passed while the agent loop was running
    \* the GitHub tools
    gh_env,             \* GITHUB_TOKEN, GITHUB_PR_OWNER, GITHUB_PR_REPO, GITHUB_PR_NUMBER
    tool,               \* the last tool call: what it requested, wrote and returned
    tool_args           \* the arguments of the last tool call

inputVars == <<env_api_key, stdin, timeout_seconds, budget>>
mainVars == <<pc, shutdown_requested, instructions, computer, calls, timed_out,
              decided, result, exit_code>>
taskVars == <<clock, start_time, agent_task, cancel_pending, wait_for,
              iteration_count, output_messages, stdout>>
cleanupVars == <<trace_path, trace_dir, move_failed>>
hostVars == <<host, sandbox>>
historyVars == <<observed, agent_end, cleanup_faults, deadline_reached>>
toolVars == <<gh_env, tool, tool_args>>
scenarioVars == <<inputVars, mainVars, taskVars, cleanupVars, hostVars, historyVars>>

vars == <<scenarioVars, toolVars>>

\* The result dict.  "timed_out" is "absent" in the dict of the except
\* clause, which has no such key.
NoResult == [status |-> "none", output |-> NoneStr, error |-> None, timed_out |-> "absent"]

NoWait == [site |-> "none", since |-> 0, timeout |-> 0, fired |-> FALSE]

NoEnd == [how |-> "running", at |-> 0]

EmptyDir == [exists |-> FALSE, root |-> {}, screenshots |-> {}, videos |-> {}, metadata |-> {}]

NoHost == [exists |-> FALSE, cid |-> 0, made |-> 0]

\* The JSON object a tool returns: its keys, and the head of its "error" text.
NoPayload == [keys |-> {}, error |-> "none"]

\* A tool call: the requests it issued and the responses it received, what
\* computer.interface.write_bytes did and the path it wrote, and how the
\* call ended.
Call(name, requests, responses, write, written, outcome) ==
    [name |-> name, requests |-> requests, responses |-> responses,
     write |-> write, written |-> written,
     returned |-> outcome.returned, raised |-> outcome.raised]

NoCall == Call("none", <<>>, <<>>, "none", NoneStr, [returned |-> NoPayload, raised |-> "none"])

\* A process slot: not started (pc "start") or not part of the run ("absent").
InitProc(started) ==
    /\ pc = [r \in ProcIds |-> IF r \in started THEN "start" ELSE "absent"]
    /\ shutdown_requested = [r \in ProcIds |-> FALSE]
    /\ instructions = [r \in ProcIds |-> <<>>]
    /\ computer = [r \in ProcIds |-> None]
    /\ calls = [r \in ProcIds |-> <<>>]
    /\ timed_out = [r \in ProcIds |-> FALSE]
    /\ decided = [r \in ProcIds |-> NoResult]
    /\ result = [r \in ProcIds |-> NoResult]
    /\ exit_code = [r \in ProcIds |-> -1]
    /\ clock = [r \in ProcIds |-> 0]
    /\ start_time = [r \in ProcIds |-> 0]
    /\ agent_task = [r \in ProcIds |-> "none"]
    /\ cancel_pending = [r \in ProcIds |-> FALSE]
    /\ wait_for = [r \in ProcIds |-> NoWait]
    /\ iteration_count = [r \in ProcIds |-> 0]
    /\ output_messages = [r \in ProcIds |-> <<>>]
    /\ stdout = [r \in ProcIds |-> <<>>]
    /\ trace_path = [r \in ProcIds |-> None]
    /\ trace_dir = [r \in ProcIds |-> EmptyDir]
    /\ move_failed = [r \in ProcIds |-> {}]
    /\ host = NoHost
    /\ sandbox = [r \in ProcIds |-> 0]
    /\ observed = [r \in ProcIds |-> <<>>]
    /\ agent_end = [r \in ProcIds |-> NoEnd]
    /\ cleanup_faults = [r \in ProcIds |-> {}]
    /\ deadline_reached = [r \in ProcIds |-> FALSE]
    /\ tool = NoCall
    /\ tool_args = <<>>

\* What the environment of a run may do: how many fragments the agent
\* yields, how many files tracing leaves, whether signals are delivered,
\* how long the event-loop clock is followed, and whether the sandbox
\* provider and the filesystem may raise.
Budget(frags, files, signals, time, faults) ==
    [frags |-> frags, files |-> files, signals |-> signals, time |-> time,
     faults |-> faults]

NoBudget == Budget(0, 0, FALSE, 0, FALSE)

\* A run explores one side of its environment in full: the agent and the
\* clock, the trace directory, or the signals.
Budgets ==
    { Budget(MaxFrags, 0, FALSE, MaxTime, TRUE),
      Budget(1, MaxFiles, FALSE, MaxTimeout, TRUE),
      Budget(1, 0, TRUE, MaxTimeout, TRUE) }

\* One process of the script, with any environment and any standard input.
Init ==
    /\ env_api_key \in [ProcIds -> ApiKeyChoices]
    /\ stdin \in [ProcIds -> StdinChoices]
    /\ timeout_seconds \in [ProcIds -> 1..MaxTimeout]
    /\ \A r \in ProcIds \ {1} :
          /\ env_api_key[r] = NoneStr
          /\ stdin[r] = <<>>
          /\ timeout_seconds[r] = 1
    /\ \E b \in Budgets : budget = [r \in ProcIds |-> IF r = 1 THEN b ELSE NoBudget]
    /\ gh_env = NoGithubEnv
    /\ InitProc({1})

\* What a call to the sandbox provider or the filesystem does in process r:
\* it returns, or it raises.
Outcomes(r) == IF budget[r].faults THEN {"ok"} \cup Raised ELSE {"ok"}

\* ----------------------------------------------------------------- main()

\* sys.exit(code)
Exit(r, code) ==
    /\ exit_code' = [exit_code EXCEPT ![r] = code]
    /\ pc' = [pc EXCEPT ![r] = "exited"]

\* signal.signal(SIGTERM, signal_handler); signal.signal(SIGINT, signal_handler)
Start(r) ==
    /\ pc[r] = "start"
    /\ pc' = [pc EXCEPT ![r] = "check_key"]
    /\ UNCHANGED <<toolVars, inputVars, shutdown_requested, instructions, computer, calls,
                   timed_out, decided, result, exit_code, taskVars, cleanupVars,
                   hostVars, historyVars>>

\* A mutant of signal_handler: it cancels the agent task as well.
Signal_cancelsAgent(r) ==
    /\ pc[r] \notin {"absent", "start", "exited"}
    /\ budget[r].signals
    /\ shutdown_requested' = [shutdown_requested EXCEPT ![r] = TRUE]
    /\ cancel_pending' = [cancel_pending EXCEPT ![r] = (agent_task[r] = "pending")]
    /\ UNCHANGED <<toolVars, inputVars, pc, instructions, computer, calls, timed_out,
                   decided, result, exit_code, clock, start_time, agent_task, wait_for,
                   iteration_count, output_messages, stdout, cleanupVars, hostVars,
                   historyVars>>

\* signal_handler(signum, frame), once the handlers are registered
Signal(r) ==
    /\ pc[r] \notin {"absent", "start", "exited"}
    /\ budget[r].signals
    /\ shutdown_requested' = [shutdown_requested EXCEPT ![r] = TRUE]
    /\ UNCHANGED <<toolVars, inputVars, pc, instructions, computer, calls, timed_out,
                   decided, result, exit_code, taskVars, cleanupVars, hostVars,
                   historyVars>>

\* if not os.getenv("ANTHROPIC_API_KEY"): sys.exit(1)
CheckApiKey(r) ==
    /\ pc[r] = "check_key"
    /\ IF ~Truthy(env_api_key[r])
       THEN Exit(r, 1)
       ELSE /\ pc' = [pc EXCEPT ![r] = "read_stdin"]
            /\ UNCHANGED exit_code
    /\ UNCHANGED <<toolVars, inputVars, shutdown_requested, instructions, computer, calls,
                   timed_out, decided, result, taskVars, cleanupVars, hostVars,
                   historyVars>>

\* instructions = sys.stdin.read().strip(); if not instructions: sys.exit(1)
ReadStdin(r) ==
    /\ pc[r] = "read_stdin"
    /\ instructions' = [instructions EXCEPT ![r] = Strip(stdin[r])]
    /\ IF instructions'[r] = <<>>
       THEN Exit(r, 1)
       ELSE /\ pc' = [pc EXCEPT ![r] = "create"]
            /\ UNCHANGED exit_code
    /\ UNCHANGED <<toolVars, inputVars, shutdown_requested, computer, calls, timed_out,
                   decided, result, taskVars, cleanupVars, hostVars, historyVars>>

\* ----------------------------------------------------- execute_scenario()

\* except Exception as e: return {"status": "error", "output": None, "error": ...}
ErrorResult ==
    [status |-> "error", output |-> NoneStr, error |-> "Execution failed",
     timed_out |-> "absent"]

\* An exception e raised in the body of the outer try: the except clause
\* takes an Exception; anything else leaves execute_scenario after finally.
OuterTry(e) ==
    IF IsInstance(e, "Exception")
    THEN ErrorResult
    ELSE [status |-> "raised", output |-> NoneStr, error |-> e, timed_out |-> "absent"]

\* finally: if computer: ...
Finally(comp) == IF comp # None THEN "trace_stop" ELSE "return"

\* The exception e reaches the outer try; control goes to finally.
RaiseOuter(r, e, comp) ==
    /\ decided' = [decided EXCEPT ![r] = OuterTry(e)]
    /\ pc' = [pc EXCEPT ![r] = Finally(comp)]

\* os.makedirs(output_dir); computer = Computer(name=container_name, ...)
CreateComputer(r) ==
    /\ pc[r] = "create"
    /\ calls' = [calls EXCEPT ![r] = Append(@, "Computer")]
    /\ \E o \in Outcomes(r) :
          IF o = "ok"
          THEN /\ computer' = [computer EXCEPT ![r] = "Computer"]
               /\ pc' = [pc EXCEPT ![r] = "run"]
               /\ UNCHANGED decided
          ELSE /\ RaiseOuter(r, o, None)
               /\ UNCHANGED computer
    /\ UNCHANGED <<toolVars, inputVars, shutdown_requested, instructions, timed_out,
                   result, exit_code, taskVars, cleanupVars, hostVars, historyVars>>

\* The provider's start of the container named container_name: a host with
\* no such container gets a new one; on a host that has one, the provider
\* attaches to it.
ProviderRun(h) ==
    IF h.exists THEN h
    ELSE [exists |-> TRUE, cid |-> h.made + 1, made |-> h.made + 1]

\* await computer.run()
RunComputer(r) ==
    /\ pc[r] = "run"
    /\ calls' = [calls EXCEPT ![r] = Append(@, "run")]
    /\ \E o \in Outcomes(r) :
          IF o = "ok"
          THEN /\ host' = ProviderRun(host)
               /\ sandbox' = [sandbox EXCEPT ![r] = host'.cid]
               /\ pc' = [pc EXCEPT ![r] = "trace_start"]
               /\ UNCHANGED decided
          ELSE /\ RaiseOuter(r, o, computer[r])
               /\ UNCHANGED hostVars
    /\ UNCHANGED <<toolVars, inputVars, shutdown_requested, instructions, computer,
                   timed_out, result, exit_code, taskVars, cleanupVars, historyVars>>

\* await computer.tracing.start({...})
StartTracing(r) ==
    /\ pc[r] = "trace_start"
    /\ calls' = [calls EXCEPT ![r] = Append(@, "trace_start")]
    /\ \E o \in Outcomes(r) :
          IF o = "ok"
          THEN /\ pc' = [pc EXCEPT ![r] = "agent"]
               /\ UNCHANGED decided
          ELSE RaiseOuter(r, o, computer[r])
    /\ UNCHANGED <<toolVars, inputVars, shutdown_requested, instructions, computer,
                   timed_out, result, exit_code, taskVars, cleanupVars, hostVars,
                   historyVars>>

\* A new wait_for(agent_task, timeout) at `site`, entered at time `now`.
WaitFor(site, now, timeout) ==
    [site |-> site, since |-> now, timeout |-> timeout, fired |-> FALSE]

\* agent = ComputerAgent(...); output_messages = []; start_time = loop.time();
\* agent_task = asyncio.create_task(run_agent());
\* await asyncio.wait_for(agent_task, timeout=timeout_seconds)
StartAgent(r) ==
    /\ pc[r] = "agent"
    /\ \E o \in Outcomes(r) :
          IF o = "ok"
          THEN /\ output_messages' = [output_messages EXCEPT ![r] = <<>>]
               /\ start_time' = [start_time EXCEPT ![r] = clock[r]]
               /\ agent_task' = [agent_task EXCEPT ![r] = "pending"]
               /\ wait_for' = [wait_for EXCEPT ![r] =
                                 WaitFor("main", clock[r], timeout_seconds[r])]
               /\ pc' = [pc EXCEPT ![r] = "wait"]
               /\ UNCHANGED decided
          ELSE /\ RaiseOuter(r, o, computer[r])
               /\ UNCHANGED <<output_messages, start_time, agent_task, wait_for>>
    /\ UNCHANGED <<toolVars, inputVars, shutdown_requested, instructions, computer, calls,
                   timed_out, result, exit_code, clock, cancel_pending,
                   iteration_count, stdout, cleanupVars, hostVars, historyVars>>


\* ------------------------------------------------------------- run_agent()

\* for content_block in content:
\*     if content_block.get("type") == "text": text = content_block.get("text", "")
RECURSIVE TextsOfContent(_)
TextsOfContent(content) ==
    IF content = <<>> THEN <<>>
    ELSE (IF Get(Head(content), "type", None) = "text"
          THEN << Get(Head(content), "text", <<>>) >>
          ELSE <<>>) \o TextsOfContent(Tail(content))

\* A mutant of TextsOfOutput: the item's type is not looked at.
RECURSIVE TextsOfOutput_anyItem(_)
TextsOfOutput_anyItem(items) ==
    IF items = <<>> THEN <<>>
    ELSE TextsOfContent(Get(Head(items), "content", <<>>))
            \o TextsOfOutput_anyItem(Tail(items))

\* for item in result.get("output", []):
\*     if item.get("type") == "message": content = item.get("content", [])
RECURSIVE TextsOfOutput(_)
TextsOfOutput(items) ==
    IF items = <<>> THEN <<>>
    ELSE (IF Get(Head(items), "type", None) = "message"
          THEN TextsOfContent(Get(Head(items), "content", <<>>))
          ELSE <<>>) \o TextsOfOutput(Tail(items))

\* A mutant of AgentYield: the deadline is checked after the fragment was
\* processed.
AgentYield_checksAfter(r, frag) ==
    /\ agent_task[r] = "pending"
    /\ ~cancel_pending[r]
    /\ iteration_count[r] < budget[r].frags
    /\ iteration_count' = [iteration_count EXCEPT ![r] = @ + 1]
    /\ LET elapsed == clock[r] - start_time[r]
           texts == TextsOfOutput(Get(frag, "output", <<>>))
       IN  /\ stdout' = [stdout EXCEPT ![r] = @ \o texts]
           /\ output_messages' = [output_messages EXCEPT ![r] = @ \o texts]
           /\ IF elapsed > timeout_seconds[r]
              THEN /\ agent_task' = [agent_task EXCEPT ![r] = "TimeoutError"]
                   /\ agent_end' = [agent_end EXCEPT ![r] = [how |-> "deadline", at |-> elapsed]]
                   /\ deadline_reached' = [deadline_reached EXCEPT ![r] = TRUE]
              ELSE UNCHANGED <<agent_task, agent_end, deadline_reached>>
    /\ observed' = [observed EXCEPT ![r] = Append(@, frag)]
    /\ UNCHANGED <<toolVars, inputVars, mainVars, clock, start_time, cancel_pending, wait_for,
                   cleanupVars, hostVars, cleanup_faults>>

\* The agent yields the fragment `frag`: one iteration of the async for.
AgentYield(r, frag) ==
    /\ agent_task[r] = "pending"
    /\ ~cancel_pending[r]
    /\ iteration_count[r] < budget[r].frags
    /\ iteration_count' = [iteration_count EXCEPT ![r] = @ + 1]
    /\ LET elapsed == clock[r] - start_time[r]
           texts == TextsOfOutput(Get(frag, "output", <<>>))
       IN  IF elapsed > timeout_seconds[r]
           THEN \* raise asyncio.TimeoutError()
                /\ agent_task' = [agent_task EXCEPT ![r] = "TimeoutError"]
                /\ agent_end' = [agent_end EXCEPT ![r] = [how |-> "deadline", at |-> elapsed]]
                /\ deadline_reached' = [deadline_reached EXCEPT ![r] = TRUE]
                /\ UNCHANGED <<stdout, output_messages>>
           ELSE \* print(text); output_messages.append(text)
                /\ stdout' = [stdout EXCEPT ![r] = @ \o texts]
                /\ output_messages' = [output_messages EXCEPT ![r] = @ \o texts]
                /\ UNCHANGED <<agent_task, agent_end, deadline_reached>>
    /\ observed' = [observed EXCEPT ![r] = Append(@, frag)]
    /\ UNCHANGED <<toolVars, inputVars, mainVars, clock, start_time, cancel_pending, wait_for,
                   cleanupVars, hostVars, cleanup_faults>>

\* agent.run() is exhausted: run_agent returns.
AgentComplete(r) ==
    /\ agent_task[r] = "pending"
    /\ ~cancel_pending[r]
    /\ agent_task' = [agent_task EXCEPT ![r] = "ok"]
    /\ agent_end' = [agent_end EXCEPT ![r] =
                       [how |-> "completed", at |-> clock[r] - start_time[r]]]
    /\ UNCHANGED <<toolVars, inputVars, mainVars, clock, start_time, cancel_pending, wait_for,
                   iteration_count, output_messages, stdout, cleanupVars, hostVars,
                   observed, cleanup_faults, deadline_reached>>

\* agent.run() raises e, which leaves run_agent.
AgentRaise(r, e) ==
    /\ agent_task[r] = "pending"
    /\ ~cancel_pending[r]
    /\ agent_task' = [agent_task EXCEPT ![r] = e]
    /\ agent_end' = [agent_end EXCEPT ![r] =
                       [how |-> e, at |-> clock[r] - start_time[r]]]
    /\ UNCHANGED <<toolVars, inputVars, mainVars, clock, start_time, cancel_pending, wait_for,
                   iteration_count, output_messages, stdout, cleanupVars, hostVars,
                   observed, cleanup_faults, deadline_reached>>

\* The cancellation is thrown into the agent, which lets it through:
\* except asyncio.CancelledError: print(...); raise
AgentCancelled(r) ==
    /\ agent_task[r] = "pending"
    /\ cancel_pending[r]
    /\ cancel_pending' = [cancel_pending EXCEPT ![r] = FALSE]
    /\ agent_task' = [agent_task EXCEPT ![r] = "cancelled"]
    /\ agent_end' = [agent_end EXCEPT ![r] =
                       [how |-> "cancelled", at |-> clock[r] - start_time[r]]]
    /\ UNCHANGED <<toolVars, inputVars, mainVars, clock, start_time, wait_for,
                   iteration_count, output_messages, stdout, cleanupVars, hostVars,
                   observed, cleanup_faults, deadline_reached>>

\* The cancellation is thrown into the agent, which catches it and goes on.
AgentSuppressesCancel(r) ==
    /\ agent_task[r] = "pending"
    /\ cancel_pending[r]
    /\ cancel_pending' = [cancel_pending EXCEPT ![r] = FALSE]
    /\ UNCHANGED <<toolVars, inputVars, mainVars, clock, start_time, agent_task, wait_for,
                   iteration_count, output_messages, stdout, cleanupVars, hostVars,
                   historyVars>>

\* ------------------------------------------------------ asyncio.wait_for()

\* The timer of the pending wait_for is due.
TimerDue(r) ==
    /\ wait_for[r].site # "none"
    /\ ~wait_for[r].fired
    /\ clock[r] - wait_for[r].since >= wait_for[r].timeout

\* A second passes while the main coroutine waits for the agent task.  The
\* event loop runs a due timer and a finished task's waiter at once.
Tick(r) ==
    /\ pc[r] = "wait"
    /\ agent_task[r] = "pending"
    /\ ~cancel_pending[r]
    /\ ~TimerDue(r)
    /\ clock[r] < budget[r].time
    /\ clock' = [clock EXCEPT ![r] = @ + 1]
    /\ UNCHANGED <<toolVars, inputVars, mainVars, start_time, agent_task, cancel_pending,
                   wait_for, iteration_count, output_messages, stdout,
                   cleanupVars, hostVars, historyVars>>

\* wait_for's timeout: it cancels the task and goes on waiting for it.
TimerFires(r) ==
    /\ pc[r] = "wait"
    /\ agent_task[r] = "pending"
    /\ TimerDue(r)
    /\ wait_for' = [wait_for EXCEPT ![r].fired = TRUE]
    /\ cancel_pending' = [cancel_pending EXCEPT ![r] = TRUE]
    /\ deadline_reached' = [deadline_reached EXCEPT ![r] = TRUE]
    /\ UNCHANGED <<toolVars, inputVars, mainVars, clock, start_time, agent_task,
                   iteration_count, output_messages, stdout, cleanupVars,
                   hostVars, observed, agent_end, cleanup_faults>>

\* What wait_for does once the task is done: returns its result, raises its
\* exception, and turns the cancellation it made itself into TimeoutError.
\* This is asyncio from Python 3.9 on; 3.7 and 3.8 wait for the cancelled
\* task in the same way and then raise TimeoutError whatever its result.
WaitForOutcome(task, fired) ==
    CASE task = "ok"        -> "ok"
      [] task = "cancelled" -> IF fired THEN "TimeoutError" ELSE "CancelledError"
      [] OTHER              -> task

\* return {"status": status, "output": "\n".join(output_messages), ...}
ReturnDict(status, msgs, error, to) ==
    [status |-> status, output |-> Some(Join(<<"\n">>, msgs)), error |-> error,
     timed_out |-> IF to THEN "True" ELSE "False"]

\* The awaited wait_for ends, and execute_scenario runs on to its return
\* statement or its except clause.  wait_for ends only when the task is
\* done, so the handler of the first wait finds agent_task.done() true.
WaitForReturns(r) ==
    /\ pc[r] = "wait"
    /\ agent_task[r] \notin {"none", "pending"}
    /\ LET o == WaitForOutcome(agent_task[r], wait_for[r].fired)
           msgs == output_messages[r]
       IN  IF wait_for[r].site = "main"
           THEN IF o = "ok"
                THEN \* status = "success"; error = None
                     /\ decided' = [decided EXCEPT ![r] =
                                      ReturnDict("success", msgs, None, timed_out[r])]
                     /\ pc' = [pc EXCEPT ![r] = Finally(computer[r])]
                     /\ wait_for' = [wait_for EXCEPT ![r] = NoWait]
                     /\ UNCHANGED <<timed_out, cancel_pending>>
                ELSE IF IsInstance(o, "TimeoutError")
                THEN \* except asyncio.TimeoutError: timed_out = True; status = "warning"
                     /\ timed_out' = [timed_out EXCEPT ![r] = TRUE]
                     /\ IF agent_task[r] = "pending"
                        THEN \* agent_task.cancel(); await wait_for(agent_task, 5.0)
                             /\ cancel_pending' = [cancel_pending EXCEPT ![r] = TRUE]
                             /\ wait_for' = [wait_for EXCEPT ![r] =
                                               WaitFor("grace", clock[r], GRACE)]
                             /\ UNCHANGED <<pc, decided>>
                        ELSE /\ decided' = [decided EXCEPT ![r] =
                                              ReturnDict("warning", msgs, "Execution timed out", TRUE)]
                             /\ pc' = [pc EXCEPT ![r] = Finally(computer[r])]
                             /\ wait_for' = [wait_for EXCEPT ![r] = NoWait]
                             /\ UNCHANGED cancel_pending
                ELSE /\ RaiseOuter(r, o, computer[r])
                     /\ wait_for' = [wait_for EXCEPT ![r] = NoWait]
                     /\ UNCHANGED <<timed_out, cancel_pending>>
           ELSE \* the wait of the grace period
                IF o \in {"ok", "CancelledError", "TimeoutError"}
                THEN \* except (asyncio.CancelledError, asyncio.TimeoutError): print(...)
                     /\ decided' = [decided EXCEPT ![r] =
                                      ReturnDict("warning", msgs, "Execution timed out", timed_out[r])]
                     /\ pc' = [pc EXCEPT ![r] = Finally(computer[r])]
                     /\ wait_for' = [wait_for EXCEPT ![r] = NoWait]
                     /\ UNCHANGED <<timed_out, cancel_pending>>
                ELSE /\ RaiseOuter(r, o, computer[r])
                     /\ wait_for' = [wait_for EXCEPT ![r] = NoWait]
                     /\ UNCHANGED <<timed_out, cancel_pending>>
    /\ UNCHANGED <<toolVars, inputVars, shutdown_requested, instructions, computer, calls,
                   result, exit_code, clock, start_time, agent_task,
                   iteration_count, output_messages, stdout, cleanupVars, hostVars,
                   historyVars>>


\* --------------------------------------------------------- finally: cleanup

\* What computer.tracing.stop({'format': 'dir'}) may leave on disk: a path
\* that does not exist, or a directory with up to n files in its root.
TraceDirs(n) ==
    {EmptyDir} \cup
    { [exists |-> TRUE, root |-> fs, screenshots |-> {}, videos |-> {}, metadata |-> {}] :
        fs \in {S \in SUBSET FileChoices : Cardinality(S) <= n} }

\* trace_path = None; try: trace_path = await computer.tracing.stop(...)
\* except Exception as e: print(...)
StopTracing(r) ==
    /\ pc[r] = "trace_stop"
    /\ calls' = [calls EXCEPT ![r] = Append(@, "trace_stop")]
    /\ \E o \in Outcomes(r), p \in {None, "trace"}, d \in TraceDirs(budget[r].files) :
          IF o = "ok"
          THEN /\ trace_path' = [trace_path EXCEPT ![r] = p]
               /\ trace_dir' = [trace_dir EXCEPT ![r] = IF p = None THEN EmptyDir ELSE d]
               /\ UNCHANGED cleanup_faults
          ELSE /\ trace_path' = [trace_path EXCEPT ![r] = None]
               /\ cleanup_faults' = [cleanup_faults EXCEPT ![r] = @ \cup {"trace_stop"}]
               /\ UNCHANGED trace_dir
    /\ pc' = [pc EXCEPT ![r] = "organize"]
    /\ UNCHANGED <<toolVars, inputVars, shutdown_requested, instructions, computer, timed_out,
                   decided, result, exit_code, taskVars, move_failed, hostVars, observed,
                   agent_end, deadline_reached>>

\* glob.glob(os.path.join(trace_path, "*." + ext)) for the extensions `exts`.
\* The files of a trace have names that do not begin with a dot, which is
\* what "*" matches.
Glob(d, exts) == {f \in d.root : f.ext \in exts}

\* A mutant of MoveAll: the first move that raises ends the organization.
MoveAll_abortsOnFailure(d, failing) ==
    IF failing = {}
    THEN [exists |-> TRUE,
          root |-> d.root \ Glob(d, {"png", "mp4", "webm", "json"}),
          screenshots |-> d.screenshots \cup Glob(d, {"png"}),
          videos |-> d.videos \cup Glob(d, {"mp4", "webm"}),
          metadata |-> d.metadata \cup Glob(d, {"json"})]
    ELSE d

\* The three loops of shutil.move(file, os.path.join(subdir, basename)):
\* each file is moved unless its move raises, which is logged and skipped.
MoveAll(d, failing) ==
    LET shots == Glob(d, {"png"}) \ failing
        vids  == Glob(d, {"mp4", "webm"}) \ failing
        metas == Glob(d, {"json"}) \ failing
    IN  [exists |-> TRUE,
         root |-> d.root \ (shots \cup vids \cup metas),
         screenshots |-> d.screenshots \cup shots,
         videos |-> d.videos \cup vids,
         metadata |-> d.metadata \cup metas]

\* A mutant of OrganizeArtifacts: the container is stopped first.
OrganizeArtifacts_afterStop(r) ==
    /\ pc[r] = "organize"
    /\ calls' = [calls EXCEPT ![r] = Append(@, "stop")]
    /\ host' = [exists |-> FALSE, cid |-> 0, made |-> host.made]
    /\ IF trace_path[r] # None /\ trace_dir[r].exists
       THEN /\ trace_dir' = [trace_dir EXCEPT ![r] = MoveAll(@, {})]
            /\ move_failed' = [move_failed EXCEPT ![r] = {}]
       ELSE UNCHANGED <<trace_dir, move_failed>>
    /\ pc' = [pc EXCEPT ![r] = "return"]
    /\ UNCHANGED <<toolVars, inputVars, shutdown_requested, instructions, computer,
                   timed_out, decided, result, exit_code, taskVars, trace_path,
                   sandbox, historyVars>>

\* if trace_path and os.path.exists(trace_path): try: ... except Exception: ...
OrganizeArtifacts(r) ==
    /\ pc[r] = "organize"
    /\ IF trace_path[r] # None /\ trace_dir[r].exists
       THEN \E o \in Outcomes(r),
               failing \in SUBSET Glob(trace_dir[r], {"png", "mp4", "webm", "json"}) :
               IF o = "ok"
               THEN /\ trace_dir' = [trace_dir EXCEPT ![r] = MoveAll(@, failing)]
                    /\ move_failed' = [move_failed EXCEPT ![r] = failing]
                    /\ cleanup_faults' = [cleanup_faults EXCEPT ![r] =
                                            IF failing = {} THEN @ ELSE @ \cup {"move"}]
               ELSE \* os.makedirs or glob raised before any move
                    /\ cleanup_faults' = [cleanup_faults EXCEPT ![r] = @ \cup {"organize"}]
                    /\ UNCHANGED <<trace_dir, move_failed>>
       ELSE UNCHANGED <<trace_dir, move_failed, cleanup_faults>>
    /\ pc' = [pc EXCEPT ![r] = "stop"]
    /\ UNCHANGED <<toolVars, inputVars, shutdown_requested, instructions, computer, calls,
                   timed_out, decided, result, exit_code, taskVars, trace_path,
                   hostVars, observed, agent_end, deadline_reached>>

\* The provider's stop of the container named container_name.
ProviderStop(h) == [exists |-> FALSE, cid |-> 0, made |-> h.made]

\* The hosts computer.stop() may leave: a Computer that is attached and
\* whose stop returns has stopped the container of its name; one that never
\* attached, or whose stop raised, may or may not have.
StopEffects(h, attached, o) ==
    IF o = "ok" /\ attached THEN {ProviderStop(h)} ELSE {h, ProviderStop(h)}

\* A mutant of StopContainer: a trace that could not be stopped skips the stop.
StopContainer_skipsAfterTraceFault(r) ==
    /\ pc[r] = "stop"
    /\ IF "trace_stop" \in cleanup_faults[r]
       THEN UNCHANGED <<calls, host>>
       ELSE /\ calls' = [calls EXCEPT ![r] = Append(@, "stop")]
            /\ host' = ProviderStop(host)
    /\ pc' = [pc EXCEPT ![r] = "return"]
    /\ UNCHANGED <<toolVars, inputVars, shutdown_requested, instructions, computer, timed_out,
                   decided, result, exit_code, taskVars, cleanupVars, sandbox,
                   historyVars>>

\* A mutant of StopContainer: an exception of computer.stop() is not caught.
StopContainer_uncaught(r) ==
    /\ pc[r] = "stop"
    /\ calls' = [calls EXCEPT ![r] = Append(@, "stop")]
    /\ \E o \in Outcomes(r) :
          /\ host' \in StopEffects(host, sandbox[r] # 0, o)
          /\ IF o = "ok"
             THEN UNCHANGED <<cleanup_faults, decided>>
             ELSE /\ cleanup_faults' = [cleanup_faults EXCEPT ![r] = @ \cup {"stop"}]
                  /\ decided' = [decided EXCEPT ![r] =
                                   [status |-> "raised", output |-> NoneStr,
                                    error |-> o, timed_out |-> "absent"]]
    /\ pc' = [pc EXCEPT ![r] = "return"]
    /\ UNCHANGED <<toolVars, inputVars, shutdown_requested, instructions, computer, timed_out,
                   result, exit_code, taskVars, cleanupVars, sandbox, observed,
                   agent_end, deadline_reached>>

\* await computer.stop(), inside try: ... except Exception as e: print(...)
StopContainer(r) ==
    /\ pc[r] = "stop"
    /\ calls' = [calls EXCEPT ![r] = Append(@, "stop")]
    /\ \E o \in Outcomes(r) :
          /\ host' \in StopEffects(host, sandbox[r] # 0, o)
          /\ cleanup_faults' = [cleanup_faults EXCEPT ![r] =
                                  IF o = "ok" THEN @ ELSE @ \cup {"stop"}]
    /\ pc' = [pc EXCEPT ![r] = "return"]
    /\ UNCHANGED <<toolVars, inputVars, shutdown_requested, instructions, computer, timed_out,
                   decided, result, exit_code, taskVars, cleanupVars, sandbox,
                   observed, agent_end, deadline_reached>>

\* execute_scenario returns the value of its return statement to main.
Return(r) ==
    /\ pc[r] = "return"
    /\ result' = [result EXCEPT ![r] = decided[r]]
    /\ pc' = [pc EXCEPT ![r] = "main_exit"]
    /\ UNCHANGED <<toolVars, inputVars, shutdown_requested, instructions, computer, calls,
                   timed_out, decided, exit_code, taskVars, cleanupVars, hostVars,
                   historyVars>>

\* A mutant of ExitCodeFor: only success exits with 0.
ExitCodeFor_successOnly(res) == IF res.status = "success" THEN 0 ELSE 1

\* if result["status"] in ["success", "warning"]: sys.exit(0) else: sys.exit(1)
ExitCodeFor(res) == IF res.status \in {"success", "warning"} THEN 0 ELSE 1

ExitMain(r) ==
    /\ pc[r] = "main_exit"
    /\ Exit(r, ExitCodeFor(result[r]))
    /\ UNCHANGED <<toolVars, inputVars, shutdown_requested, instructions, computer, calls,
                   timed_out, decided, result, taskVars, cleanupVars, hostVars,
                   historyVars>>

\* --------------------------------------------------------- GitHub tools
\*
\* The adapters are called with arguments of the types of their signatures
\* (str).  Exceptions that are not instances of Exception (CancelledError,
\* KeyboardInterrupt) are not upstream behaviour and are left out.

\* json.dumps({"error": text}), json.dumps({"error": text, "message": ...})
\* and json.dumps({"success": True, ...}).
Error(text) == [keys |-> {"error"}, error |-> text]
ErrorMessage(text) == [keys |-> {"error", "message"}, error |-> text]
Success(keys) == [keys |-> {"success"} \cup keys, error |-> "none"]

\* How a block of code ends: it returns a payload, or it raises.
Returns(payload) == [returned |-> payload, raised |-> "none"]
Raises(e) == [returned |-> NoPayload, raised |-> e]

\* requests.get(url, ...): the endpoint and the identifier in its path.
Request(endpoint, id) == [endpoint |-> endpoint, id |-> id]

\* The subclasses of requests.exceptions.RequestException, and the subclasses
\* of Exception, among the exceptions the tools meet.
RequestExceptions == {"Timeout", "ConnectionError", "JSONDecodeError"}
Exceptions == RequestExceptions \cup {"KeyError", "ValueError"} \cup Raised

\* A mutant of Except: there is no `except Exception` clause.
Except_requestErrorsOnly(outcome, timeout_text, failed_text) ==
    IF outcome.raised = "Timeout" THEN Returns(Error(timeout_text))
    ELSE IF outcome.raised \in RequestExceptions THEN Returns(Error(failed_text))
    ELSE outcome

\* except requests.exceptions.Timeout: ...
\* except requests.exceptions.RequestException as e: ...
\* except Exception as e: ...
Except(outcome, timeout_text, failed_text) ==
    IF outcome.raised = "none" THEN outcome
    ELSE IF outcome.raised = "Timeout" THEN Returns(Error(timeout_text))
    ELSE IF outcome.raised \in RequestExceptions THEN Returns(Error(failed_text))
    ELSE IF outcome.raised \in Exceptions THEN Returns(Error("Unexpected error"))
    ELSE outcome

\* `sub in s`
Contains(s, sub) ==
    \E i \in 1..Len(s) : i + Len(sub) - 1 <= Len(s) /\ SubSeq(s, i, i + Len(sub) - 1) = sub

\* The longest run of digits of s that starts at position i.
RECURSIVE DigitsFrom(_, _)
DigitsFrom(s, i) ==
    IF i > Len(s) \/ s[i] \notin Digits THEN <<>>
    ELSE <<s[i]>> \o DigitsFrom(s, i + 1)

\* A mutant of Search: the group is (\d), one digit.
Search_oneDigit(s) ==
    LET starts == { i \in 1..Len(s) : /\ i + Len(RunsPath) <= Len(s)
                                      /\ SubSeq(s, i, i + Len(RunsPath) - 1) = RunsPath
                                      /\ s[i + Len(RunsPath)] \in Digits }
        first == CHOOSE i \in starts : \A j \in starts : i <= j
    IN IF starts = {} THEN NoneStr ELSE Some(<<s[first + Len(RunsPath)]>>)

\* re.search(r'/actions/runs/(\d+)', s): group 1 of the leftmost match, or
\* None.
Search(s) ==
    LET starts == { i \in 1..Len(s) : /\ i + Len(RunsPath) <= Len(s)
                                      /\ SubSeq(s, i, i + Len(RunsPath) - 1) = RunsPath
                                      /\ s[i + Len(RunsPath)] \in Digits }
        first == CHOOSE i \in starts : \A j \in starts : i <= j
    IN IF starts = {} THEN NoneStr ELSE Some(DigitsFrom(s, first + Len(RunsPath)))

\* The local `run_id` of list_github_artifacts: the argument itself, or the
\* identifier found in a URL; None where the adapter returns instead.
run_id(workflow_run_id) ==
    IF Contains(workflow_run_id, GithubHost) THEN Search(workflow_run_id)
    ELSE Some(workflow_run_id)

\* The try block of list_github_workflows.
WorkflowsTry(pr_response, runs_response) ==
    IF pr_response.raises # "none" THEN Raises(pr_response.raises)
    ELSE IF pr_response.status # 200 THEN Returns(ErrorMessage("Failed to fetch PR info"))
    ELSE IF pr_response.json \in JsonErrors THEN Raises(pr_response.json)
    ELSE IF pr_response.json = "lacks_required" THEN Raises("KeyError")
    ELSE IF runs_response.raises # "none" THEN Raises(runs_response.raises)
    ELSE IF runs_response.status = 200
         THEN IF runs_response.json \in JsonErrors THEN Raises(runs_response.json)
              ELSE IF runs_response.json = "lacks_required" THEN Raises("KeyError")
              ELSE Returns(Success({"pr_number", "pr_branch", "repository", "count",
                                    "workflow_runs"}))
    ELSE Returns(ErrorMessage("GitHub API error"))

\* The second request of list_github_workflows is issued once the first
\* has given the branch.
WorkflowsAsksRuns(pr_response) ==
    /\ pr_response.raises = "none"
    /\ pr_response.status = 200
    /\ pr_response.json \in {"ok", "lacks_optional"}

list_github_workflows(env, pr_response, runs_response) ==
    LET name == "list_github_workflows" IN
    IF ~Truthy(env.token)
    THEN Call(name, <<>>, <<>>, "none", NoneStr, Returns(Error("GITHUB_TOKEN not available")))
    ELSE IF env.repo_owner = <<>> \/ env.repo_name = <<>> \/ env.pr_number = <<>>
    THEN Call(name, <<>>, <<>>, "none", NoneStr, Returns(Error("PR context not available")))
    ELSE Call(name,
              IF WorkflowsAsksRuns(pr_response)
              THEN <<Request("pulls", env.pr_number), Request("runs", <<>>)>>
              ELSE <<Request("pulls", env.pr_number)>>,
              IF WorkflowsAsksRuns(pr_response)
              THEN <<pr_response, runs_response>>
              ELSE <<pr_response>>,
              "none", NoneStr,
              Except(WorkflowsTry(pr_response, runs_response),
                     "Request timed out", "Request failed"))

\* The try block of list_github_artifacts.
ArtifactsTry(response) ==
    IF response.raises # "none" THEN Raises(response.raises)
    ELSE IF response.status = 200
         THEN IF response.json \in JsonErrors THEN Raises(response.json)
              ELSE IF response.json = "lacks_required" THEN Raises("KeyError")
              ELSE Returns(Success({"workflow_run_id", "repository", "count", "artifacts"}))
    ELSE IF response.status = 404 THEN Returns(ErrorMessage("Workflow run not found"))
    ELSE IF response.status \in {401, 403}
         THEN Returns(ErrorMessage("GitHub API authentication failed"))
    ELSE Returns(ErrorMessage("GitHub API error"))

list_github_artifacts(env, workflow_run_id, response) ==
    LET name == "list_github_artifacts" IN
    IF ~Truthy(env.token)
    THEN Call(name, <<>>, <<>>, "none", NoneStr, Returns(Error("GITHUB_TOKEN not available")))
    ELSE IF env.repo_owner = <<>> \/ env.repo_name = <<>>
    THEN Call(name, <<>>, <<>>, "none", NoneStr,
              Returns(Error("Repository context not available")))
    ELSE IF run_id(workflow_run_id) = NoneStr
    THEN Call(name, <<>>, <<>>, "none", NoneStr,
              Returns(Error("Could not parse workflow run ID from URL")))
    ELSE Call(name, <<Request("artifacts", run_id(workflow_run_id)[1])>>, <<response>>,
              "none", NoneStr,
              Except(ArtifactsTry(response), "Request timed out", "Request failed"))

\* filename = destination_filename or f"artifact-{artifact_id}.zip"
Filename(artifact_id, destination_filename) ==
    IF Truthy(destination_filename) THEN destination_filename[1]
    ELSE <<"a", "r", "t", "i", "f", "a", "c", "t", "-">> \o artifact_id
         \o <<".", "z", "i", "p">>

\* container_path = f"/tmp/{filename}"
ContainerPath(filename) == <<"/", "t", "m", "p", "/">> \o filename

\* The try block of download_github_artifact; write is what
\* computer.interface.write_bytes does.
DownloadTry(response, write) ==
    IF response.raises # "none" THEN Raises(response.raises)
    ELSE IF response.status = 200
         THEN IF write = "ok"
              THEN Returns(Success({"artifact_id", "repository", "container_path",
                                    "filename", "size_bytes", "message", "instructions"}))
              ELSE Returns(ErrorMessage("Failed to write file to container"))
    ELSE IF response.status = 404 THEN Returns(ErrorMessage("Artifact not found"))
    ELSE IF response.status \in {401, 403}
         THEN Returns(ErrorMessage("GitHub API authentication failed"))
    ELSE IF response.status = 410 THEN Returns(ErrorMessage("Artifact has expired"))
    ELSE Returns(ErrorMessage("GitHub API error"))

download_github_artifact(env, artifact_id, destination_filename, response, write) ==
    LET name == "download_github_artifact"
        writes == response.raises = "none" /\ response.status = 200
    IN
    IF ~Truthy(env.token)
    THEN Call(name, <<>>, <<>>, "none", NoneStr, Returns(Error("GITHUB_TOKEN not available")))
    ELSE IF env.repo_owner = <<>> \/ env.repo_name = <<>>
    THEN Call(name, <<>>, <<>>, "none", NoneStr,
              Returns(Error("Repository context not available")))
    ELSE Call(name, <<Request("zip", artifact_id)>>, <<response>>,
              IF writes THEN write ELSE "none",
              IF writes /\ write = "ok"
              THEN Some(ContainerPath(Filename(artifact_id, destination_filename)))
              ELSE NoneStr,
              Except(DownloadTry(response, write), "Download timed out", "Download failed"))

\* The agent calls list_github_workflows.
ListWorkflows ==
    /\ \E pr_response, runs_response \in ResponseChoices :
          tool' = list_github_workflows(gh_env, pr_response, runs_response)
    /\ tool_args' = <<>>
    /\ UNCHANGED <<gh_env, scenarioVars>>

\* The agent calls list_github_artifacts.
ListArtifacts ==
    /\ \E workflow_run_id \in WorkflowRunIdChoices, response \in ResponseChoices :
          /\ tool' = list_github_artifacts(gh_env, workflow_run_id, response)
          /\ tool_args' = <<workflow_run_id>>
    /\ UNCHANGED <<gh_env, scenarioVars>>

\* The agent calls download_github_artifact.
DownloadArtifact ==
    /\ \E artifact_id \in ArtifactIdChoices, destination_filename \in FilenameChoices,
          response \in ResponseChoices, write \in {"ok", "Exception"} :
          /\ tool' = download_github_artifact(gh_env, artifact_id, destination_filename,
                                              response, write)
          /\ tool_args' = <<artifact_id, destination_filename>>
    /\ UNCHANGED <<gh_env, scenarioVars>>

\* ------------------------------------------------------------ specification

Next ==
    \E r \in ProcIds :
        \/ Start(r)
        \/ Signal(r)
        \/ CheckApiKey(r)
        \/ ReadStdin(r)
        \/ CreateComputer(r)
        \/ RunComputer(r)
        \/ StartTracing(r)
        \/ StartAgent(r)
        \/ \E frag \in FragmentChoices : AgentYield(r, frag)
        \/ AgentComplete(r)
        \/ \E e \in Raised : AgentRaise(r, e)
        \/ AgentCancelled(r)
        \/ AgentSuppressesCancel(r)
        \/ Tick(r)
        \/ TimerFires(r)
        \/ WaitForReturns(r)
        \/ StopTracing(r)
        \/ OrganizeArtifacts(r)
        \/ StopContainer(r)
        \/ Return(r)
        \/ ExitMain(r)

Spec == Init /\ [][Next]_vars

\* Two processes of the script started on the same Docker host, each with a
\* key and instructions.  The first meets an agent that yields at most one
\* fragment and collaborators that do not fail; the second may receive a
\* signal and meets a provider and a filesystem that may raise.
InitConc ==
    /\ env_api_key = [r \in ProcIds |-> Some(<<"k">>)]
    /\ stdin = [r \in ProcIds |-> <<" ", "x", "\n">>]
    /\ timeout_seconds = [r \in ProcIds |-> 1]
    /\ budget = [r \in ProcIds |-> IF r = 1 THEN Budget(1, 0, FALSE, 1, FALSE)
                                               ELSE Budget(0, 0, TRUE, 0, TRUE)]
    /\ gh_env = NoGithubEnv
    /\ InitProc(ProcIds)

SpecConc == InitConc /\ [][Next]_vars

\* The GitHub tools, called in any order in any environment, with any
\* arguments and any behaviour of the GitHub API and of the sandbox.
InitTools ==
    /\ env_api_key = [r \in ProcIds |-> NoneStr]
    /\ stdin = [r \in ProcIds |-> <<>>]
    /\ timeout_seconds = [r \in ProcIds |-> 1]
    /\ budget = [r \in ProcIds |-> NoBudget]
    /\ gh_env \in GithubEnvChoices
    /\ InitProc({})

NextTools ==
    \/ ListWorkflows
    \/ ListArtifacts
    \/ DownloadArtifact

SpecTools == InitTools /\ [][NextTools]_vars


\* -------------------------------------------------------------- properties

\* How often the process has made the sandbox call `name`.
Count(log, name) == Cardinality({i \in DOMAIN log : log[i] = name})

\* execute_scenario has returned to main.
Returned(r) == pc[r] \in {"main_exit", "exited"} /\ result[r] # NoResult

\* execute_scenario has left its finally block.
AfterFinally(r) == pc[r] = "return" \/ Returned(r)

\* The text segments of a fragment, as the specification counts them: the
\* text of every block of type "text" of every item of type "message".
IsMessage(item) == "type" \in DOMAIN item /\ item.type = "message"
IsText(block) == "type" \in DOMAIN block /\ block.type = "text"

RECURSIVE SegmentsOfBlocks(_)
SegmentsOfBlocks(blocks) ==
    IF blocks = <<>> THEN <<>>
    ELSE LET b == Head(blocks)
         IN  (IF IsText(b) THEN << IF "text" \in DOMAIN b THEN b.text ELSE <<>> >> ELSE <<>>)
                \o SegmentsOfBlocks(Tail(blocks))

RECURSIVE SegmentsOfItems(_)
SegmentsOfItems(items) ==
    IF items = <<>> THEN <<>>
    ELSE LET it == Head(items)
         IN  (IF IsMessage(it) /\ "content" \in DOMAIN it
              THEN SegmentsOfBlocks(it.content) ELSE <<>>)
                \o SegmentsOfItems(Tail(items))

RECURSIVE AllSegments(_)
AllSegments(frags) ==
    IF frags = <<>> THEN <<>>
    ELSE (IF "output" \in DOMAIN Head(frags) THEN SegmentsOfItems(Head(frags).output) ELSE <<>>)
            \o AllSegments(Tail(frags))

\* The lines joined by newlines.
RECURSIVE Lines(_)
Lines(parts) ==
    IF parts = <<>> THEN <<>>
    ELSE IF Tail(parts) = <<>> THEN Head(parts)
    ELSE Head(parts) \o <<"\n">> \o Lines(Tail(parts))

\* C1: in every run in which the Computer object was created, whatever the
\* outcome, computer.stop() has been invoked exactly once when
\* execute_scenario leaves its finally block, and never more than once.
C1_StopExactlyOnce ==
    \A r \in ProcIds :
        /\ Count(calls[r], "stop") <= 1
        /\ (AfterFinally(r) /\ computer[r] # None) => Count(calls[r], "stop") = 1

\* A run that timed out, whose trace stop raised, has returned after one stop.
C1_Witness ==
    \E r \in ProcIds :
        /\ Returned(r)
        /\ computer[r] # None
        /\ result[r].timed_out = "True"
        /\ "trace_stop" \in cleanup_faults[r]
        /\ Count(calls[r], "stop") = 1

\* C2: when the agent loop completes without raising before timeout_seconds
\* have elapsed, execute_scenario returns status "success", timed_out false,
\* and as output the text segments of all fragments, in arrival order,
\* joined by newlines.
C2_SuccessOutput ==
    \A r \in ProcIds :
        (/\ Returned(r)
         /\ agent_end[r].how = "completed"
         /\ agent_end[r].at < timeout_seconds[r])
        => /\ result[r].status = "success"
           /\ result[r].timed_out = "False"
           /\ result[r].output = Some(Lines(AllSegments(observed[r])))

\* A successful run of two fragments, one of them with two text segments
\* and items that are not messages.
C2_Witness ==
    \E r \in ProcIds :
        /\ Returned(r)
        /\ agent_end[r].how = "completed"
        /\ agent_end[r].at < timeout_seconds[r]
        /\ Len(observed[r]) = 2
        /\ result[r].output = Some(<<"a", "\n", "b", "\n", "a">>)

\* C3: when the deadline is reached before the agent loop completes,
\* execute_scenario returns status "warning" with timed_out true and, as
\* output, exactly what was echoed to standard output, joined by newlines.
C3_TimeoutKeepsPartialOutput ==
    \A r \in ProcIds :
        (Returned(r) /\ deadline_reached[r])
        => /\ result[r].status = "warning"
           /\ result[r].timed_out = "True"
           /\ result[r].output = Some(Lines(stdout[r]))

\* C4: execute_scenario stops waiting for the agent loop no later than
\* timeout_seconds plus the grace period after the loop started.
C4_WaitIsBounded ==
    \A r \in ProcIds :
        pc[r] = "wait" => clock[r] - start_time[r] <= timeout_seconds[r] + GRACE

\* C5: the exit code is 0 if and only if execute_scenario returned status
\* "success" or "warning", and 1 when it returned "error".
C5_ExitCode ==
    \A r \in ProcIds :
        pc[r] = "exited"
        => /\ exit_code[r] \in {0, 1}
           /\ exit_code[r] = 0 <=> result[r].status \in {"success", "warning"}
           /\ result[r].status = "error" => exit_code[r] = 1

\* A run that timed out with partial results has exited with code 0.
C5_Witness ==
    \E r \in ProcIds :
        /\ pc[r] = "exited"
        /\ result[r].status = "warning"
        /\ result[r].timed_out = "True"
        /\ exit_code[r] = 0

\* Standard input that is empty once trimmed.
Blank(text) == \A i \in DOMAIN text : text[i] \in Whitespace

\* The process was given no API key, or no instructions.
BadInput(r) ==
    \/ env_api_key[r] = NoneStr
    \/ env_api_key[r] = Some(<<>>)
    \/ Blank(stdin[r])

\* C6: with ANTHROPIC_API_KEY unset or empty, or standard input empty after
\* trimming, the process makes no sandbox call at all (no Computer(), no
\* computer.run()), never reaches execute_scenario, and exits with code 1.
C6_FailFast ==
    \A r \in ProcIds :
        BadInput(r)
        => /\ calls[r] = <<>>
           /\ computer[r] = None
           /\ sandbox[r] = 0
           /\ pc[r] \in {"absent", "start", "check_key", "read_stdin", "exited"}
           /\ pc[r] = "exited" => exit_code[r] = 1

\* A process with a key and whitespace on standard input has exited with 1.
C6_Witness ==
    \E r \in ProcIds :
        /\ pc[r] = "exited"
        /\ Truthy(env_api_key[r])
        /\ stdin[r] # <<>>
        /\ Blank(stdin[r])
        /\ exit_code[r] = 1
        /\ calls[r] = <<>>

\* The status the body of execute_scenario decides, from how it ended: the
\* agent loop completed, ran into the deadline, or the body raised.
BodyStatus(r) ==
    CASE agent_end[r].how = "completed" -> "success"
      [] agent_end[r].how \in {"deadline", "cancelled", "TimeoutError"} -> "warning"
      [] OTHER -> "error"

\* C7: whatever the cleanup does, raise or return, execute_scenario returns,
\* and its status and the exit code are those the body decided: a failure of
\* tracing stop, artifact organization or computer.stop changes neither.
C7_CleanupSwallowed ==
    \A r \in ProcIds :
        /\ AfterFinally(r) => decided[r].status \in {"success", "warning", "error"}
        /\ Returned(r) => result[r].status = BodyStatus(r)
        /\ (pc[r] = "exited" /\ result[r] # NoResult)
           => exit_code[r] = (IF BodyStatus(r) \in {"success", "warning"} THEN 0 ELSE 1)

\* A successful run has exited with 0 although all three cleanup steps raised.
C7_Witness ==
    \E r \in ProcIds :
        /\ pc[r] = "exited"
        /\ {"trace_stop", "stop"} \subseteq cleanup_faults[r]
        /\ result[r].status = "success"
        /\ exit_code[r] = 0

\* A run whose cleanup meets a failing artifact organization and a failing
\* stop after a timeout.
C7_WitnessOrganize ==
    \E r \in ProcIds :
        /\ pc[r] = "exited"
        /\ {"organize", "stop"} \subseteq cleanup_faults[r]
        /\ result[r].status = "warning"
        /\ exit_code[r] = 0

\* The body raised an exception that has nothing to do with the deadline:
\* before the agent loop was started, or out of the agent before the
\* deadline.
RaisedBeforeDeadline(r) ==
    \/ agent_task[r] = "none"
    \/ /\ agent_end[r].how \in Raised
       /\ agent_end[r].at < timeout_seconds[r]
       /\ ~deadline_reached[r]

\* C8: when the sandbox start, the trace start, the agent construction or
\* the agent loop raises an exception unrelated to the deadline,
\* execute_scenario returns status "error" with a message and no output,
\* and the process exits with code 1.
C8_ExceptionIsError ==
    \A r \in ProcIds :
        (Returned(r) /\ RaisedBeforeDeadline(r))
        => /\ result[r].status = "error"
           /\ result[r].error # None
           /\ result[r].output = NoneStr
           /\ pc[r] = "exited" => exit_code[r] = 1


\* The process is attached to a started container and has not stopped it.
Holding(r) == sandbox[r] # 0 /\ Count(calls[r], "stop") = 0

\* C9: the sandbox is never shared across runs: two runs that execute
\* concurrently never hold the same container, and the container a run
\* holds is running until that run stops it itself.
C9_SandboxNotShared ==
    /\ \A r1, r2 \in ProcIds :
          (r1 # r2 /\ Holding(r1) /\ Holding(r2)) => sandbox[r1] # sandbox[r2]
    /\ \A r \in ProcIds :
          Holding(r) => (host.exists /\ host.cid = sandbox[r])


\* The response is one of the upstream failures: the request raised, the
\* status is not 200, or the body cannot be decoded or lacks what the
\* adapter reads by subscript.
FailedResponse(response, decodes) ==
    \/ response.raises # "none"
    \/ response.status # 200
    \/ decodes /\ response.json \in JsonErrors \cup {"lacks_required"}

\* The call met an upstream failure.
UpstreamFailed(t) ==
    \/ \E i \in 1..Len(t.responses) :
          FailedResponse(t.responses[i], t.name # "download_github_artifact")
    \/ t.write \notin {"none", "ok"}

\* The token, or the context the called adapter requires, is missing.
MissingContext(t) ==
    \/ gh_env.token \in {NoneStr, Some(<<>>)}
    \/ gh_env.repo_owner = <<>>
    \/ gh_env.repo_name = <<>>
    \/ t.name = "list_github_workflows" /\ gh_env.pr_number = <<>>

\* C10: a call of a GitHub tool adapter never raises; it returns a payload,
\* which carries an "error" field whenever the call met a non-200 status, a
\* request timeout, a transport failure, a malformed body or a sandbox write
\* failure; when the token or the required context is missing the payload
\* carries "error" and no HTTP request was issued.
C10_AdaptersNeverRaise ==
    tool.name # "none" =>
        /\ tool.raised = "none"
        /\ tool.returned.keys # {}
        /\ UpstreamFailed(tool) => "error" \in tool.returned.keys
        /\ MissingContext(tool) =>
              ("error" \in tool.returned.keys /\ tool.requests = <<>>)

\* list_github_workflows received a malformed body from its second request
\* and returned an error payload.
C10_Witness ==
    /\ tool.name = "list_github_workflows"
    /\ Len(tool.responses) = 2
    /\ tool.responses[2].status = 200
    /\ tool.responses[2].json = "lacks_required"
    /\ tool.raised = "none"
    /\ "error" \in tool.returned.keys


\* The digits s ends with.
RECURSIVE TrailingDigits(_)
TrailingDigits(s) ==
    IF s = <<>> \/ s[Len(s)] \notin Digits THEN <<>>
    ELSE TrailingDigits(SubSeq(s, 1, Len(s) - 1)) \o <<s[Len(s)]>>

\* s has the form .../actions/runs/<digits>.
IsRunUrl(s) ==
    LET n == Len(s) - Len(TrailingDigits(s)) IN
    /\ TrailingDigits(s) # <<>>
    /\ n > Len(RunsPath)
    /\ SubSeq(s, n - Len(RunsPath) + 1, n) = RunsPath

\* s is a URL: it has a scheme, or it names the host github.com.
IsUrl(s) == Contains(s, <<":", "/", "/">>) \/ Contains(s, GithubHost)

\* /actions/runs/ followed by a digit stands at position i of s.
RunsAt(s, i) ==
    /\ i + Len(RunsPath) <= Len(s)
    /\ SubSeq(s, i, i + Len(RunsPath) - 1) = RunsPath
    /\ s[i + Len(RunsPath)] \in Digits

\* id is the whole run of digits of s that starts at position k.
DigitRunAt(s, k, id) ==
    /\ id # <<>>
    /\ k + Len(id) - 1 <= Len(s)
    /\ SubSeq(s, k, k + Len(id) - 1) = id
    /\ \A j \in 1..Len(id) : id[j] \in Digits
    /\ (k + Len(id) <= Len(s)) => s[k + Len(id)] \notin Digits

\* list_github_artifacts was called with credentials and repository context.
ArtifactsCalled ==
    /\ tool.name = "list_github_artifacts"
    /\ ~MissingContext(tool)

\* C11 as stated: for every input of the form .../actions/runs/<digits> the
\* identifier in the API request is <digits>; for every URL of another
\* shape the adapter returns the error that names the expected format and
\* issues no request.
C11_RunUrlParsed ==
    ArtifactsCalled =>
        /\ IsRunUrl(tool_args[1])
           => /\ Len(tool.requests) = 1
              /\ tool.requests[1].id = TrailingDigits(tool_args[1])
        /\ (IsUrl(tool_args[1]) /\ \A i \in 1..Len(tool_args[1]) : ~RunsAt(tool_args[1], i))
           => /\ tool.returned.error = "Could not parse workflow run ID from URL"
              /\ tool.requests = <<>>

\* C11, amended: for every input that contains "github.com", the identifier
\* in the API request is the digits that follow the first /actions/runs/
\* that digits follow; when there is none, the adapter returns the error
\* that names the expected format and issues no request.  An input without
\* "github.com" is used as the identifier as it is.
C11_GithubUrlParsed ==
    ArtifactsCalled =>
        IF Contains(tool_args[1], GithubHost)
        THEN \/ /\ \A i \in 1..Len(tool_args[1]) : ~RunsAt(tool_args[1], i)
                /\ tool.returned.error = "Could not parse workflow run ID from URL"
                /\ "error" \in tool.returned.keys
                /\ tool.requests = <<>>
             \/ \E i \in 1..Len(tool_args[1]) :
                   /\ RunsAt(tool_args[1], i)
                   /\ \A j \in 1..(i - 1) : ~RunsAt(tool_args[1], j)
                   /\ Len(tool.requests) = 1
                   /\ tool.requests[1].endpoint = "artifacts"
                   /\ DigitRunAt(tool_args[1], i + Len(RunsPath), tool.requests[1].id)
        ELSE /\ Len(tool.requests) = 1
             /\ tool.requests[1].id = tool_args[1]

\* A run URL on github.com was given and the request names its identifier.
C11_Witness ==
    /\ ArtifactsCalled
    /\ tool_args[1] = HttpsScheme \o GithubHost \o <<"/", "o", "/", "n">>
                      \o RunsPath \o <<"4", "2">>
    /\ tool.requests = <<Request("artifacts", <<"4", "2">>)>>


\* The files of the given extensions among fs.
OfType(fs, exts) == {f \in fs : f.ext \in exts}

\* C12: the organization of a trace directory leaves in screenshots/ exactly
\* its .png files, in videos/ exactly its .mp4 and .webm files and in
\* metadata/ exactly its .json files, each under its name, and leaves the
\* files of other types in place; a file whose move fails stays where it
\* was, and every other file is still relocated.
C12_ArtifactsOrganized ==
    [][\A r \in ProcIds :
          ( /\ pc[r] = "organize" /\ pc'[r] = "stop"
            /\ trace_path[r] # None /\ trace_dir[r].exists
            /\ "organize" \notin cleanup_faults'[r] )
          => /\ trace_dir'[r].screenshots = OfType(trace_dir[r].root, {"png"}) \ move_failed'[r]
             /\ trace_dir'[r].videos = OfType(trace_dir[r].root, {"mp4", "webm"}) \ move_failed'[r]
             /\ trace_dir'[r].metadata = OfType(trace_dir[r].root, {"json"}) \ move_failed'[r]
             /\ trace_dir'[r].root =
                  {f \in trace_dir[r].root : f.ext \notin {"png", "mp4", "webm", "json"}}
                  \cup move_failed'[r]
             /\ move_failed'[r] \subseteq OfType(trace_dir[r].root, {"png", "mp4", "webm", "json"})
      ]_vars

\* A trace directory was organized in which the move of one file failed:
\* that file is in place and another file was relocated.
C12_Witness ==
    \E r \in ProcIds :
        /\ pc[r] = "stop"
        /\ Cardinality(move_failed[r]) = 1
        /\ move_failed[r] \subseteq trace_dir[r].root
        /\ trace_dir[r].screenshots \cup trace_dir[r].videos \cup trace_dir[r].metadata # {}

\* A trace directory with a screenshot and a file of another type was
\* organized.
C12_WitnessPartition ==
    \E r \in ProcIds :
        /\ pc[r] = "stop"
        /\ trace_dir[r].screenshots = {File("shot", "png")}
        /\ trace_dir[r].root = {File("notes", "txt")}


\* The files in screenshots/, videos/ and metadata/ of the trace directory.
Relocated(d) == d.screenshots \cup d.videos \cup d.metadata

C14_SoftDeadlinePerFragment ==
    [][\A r \in ProcIds :
          /\ observed'[r] # observed[r]
             => LET frag == observed'[r][Len(observed'[r])]
                IN  /\ observed'[r] = Append(observed[r], frag)
                    /\ agent_task[r] = "pending"
                    /\ IF clock[r] - start_time[r] <= timeout_seconds[r]
                       THEN /\ stdout'[r] = stdout[r] \o AllSegments(<<frag>>)
                            /\ output_messages'[r] = output_messages[r] \o AllSegments(<<frag>>)
                            /\ agent_task'[r] = "pending"
                       ELSE /\ stdout'[r] = stdout[r]
                            /\ output_messages'[r] = output_messages[r]
                            /\ agent_task'[r] = "TimeoutError"
          /\ agent_task[r] \notin {"none", "pending"}
             => /\ observed'[r] = observed[r]
                /\ stdout'[r] = stdout[r]
                /\ output_messages'[r] = output_messages[r]
      ]_vars

\* A fragment was received in time and echoed, and the next was received
\* after the deadline and ended the loop without being echoed.
C14_Witness ==
    \E r \in ProcIds :
        /\ Len(observed[r]) = 2
        /\ agent_end[r].how = "deadline"
        /\ agent_end[r].at > timeout_seconds[r]
        /\ AllSegments(<<observed[r][2]>>) # <<>>
        /\ stdout[r] = AllSegments(<<observed[r][1]>>)
        /\ stdout[r] # <<>>
        /\ output_messages[r] = stdout[r]


\* C15: the delivery of SIGTERM or SIGINT changes only the flag
\* shutdown_requested, which it sets: it does not cancel or interrupt the
\* agent loop, and a run that received a signal returns the status its
\* agent loop decides and the output it echoed, exits with the code of that
\* status, and stops its sandbox.
C15_SignalOnlySetsFlag ==
    /\ [][\A r \in ProcIds :
             shutdown_requested'[r] # shutdown_requested[r]
             => /\ shutdown_requested'[r]
                /\ UNCHANGED <<toolVars, inputVars, pc, instructions, computer, calls,
                               timed_out, decided, result, exit_code, taskVars,
                               cleanupVars, hostVars, historyVars>>
       ]_vars
    /\ [](\A r \in ProcIds :
             shutdown_requested[r]
             => /\ Returned(r)
                   => /\ result[r].status = BodyStatus(r)
                      /\ result[r].status # "error"
                         => result[r].output = Some(Lines(stdout[r]))
                /\ (pc[r] = "exited" /\ result[r] # NoResult)
                   => exit_code[r] = (IF BodyStatus(r) \in {"success", "warning"} THEN 0 ELSE 1)
                /\ (AfterFinally(r) /\ computer[r] # None)
                   => Count(calls[r], "stop") = 1)

\* A run received a signal, completed with status success, stopped its
\* sandbox and exited with code 0.
C15_Witness ==
    \E r \in ProcIds :
        /\ shutdown_requested[r]
        /\ pc[r] = "exited"
        /\ result[r].status = "success"
        /\ Len(observed[r]) = 1
        /\ result[r].output = Some(<<"a">>)
        /\ Count(calls[r], "stop") = 1
        /\ exit_code[r] = 0


\* C16: execute_scenario returns status "warning", with timed_out true, only
\* if at least timeout_seconds have elapsed since the agent loop started;
\* when the agent loop ends by raising before the deadline, whatever the
\* type of the exception, the status is "error" and timed_out is not true.
C16_WarningOnlyAfterDeadline ==
    \A r \in ProcIds :
        Returned(r)
        => /\ (result[r].status = "warning" \/ result[r].timed_out = "True")
              => (deadline_reached[r] \/ agent_end[r].at >= timeout_seconds[r])
           /\ (agent_end[r].how \in Raised /\ agent_end[r].at < timeout_seconds[r])
              => /\ result[r].status = "error"
                 /\ result[r].timed_out # "True"


\* C17: the sandbox calls of a run are ordered: tracing.stop is called only
\* after tracing.start was called, tracing.start only after computer.run
\* returned, and computer.stop only after tracing.stop.
C17_CallOrder ==
    \A r \in ProcIds :
        \A i \in 1..Len(calls[r]) :
            /\ calls[r][i] = "trace_stop"
               => \E j \in 1..(i - 1) : calls[r][j] = "trace_start"
            /\ calls[r][i] = "trace_start"
               => /\ \E j \in 1..(i - 1) : calls[r][j] = "run"
                  /\ sandbox[r] # 0
            /\ calls[r][i] = "stop"
               => \E j \in 1..(i - 1) : calls[r][j] = "trace_stop"

=============================================================================
